---- MODULE Spec2Model ----
(***************************************************************************)
(* GAP layer over HCI (gap_hci.go): scanning, connecting and advertising.  *)
(* Bytes are naturals 0..255, Go arrays are sequences (Go index k is       *)
(* sequence index k+1), uint8 arithmetic is taken modulo 256.              *)
(***************************************************************************)
EXTENDS Integers, Sequences, FiniteSets, TLC

VARIABLES
    \* ---- Adapter / scan engine
    scanning,       \* a.scanning
    advData,        \* a.hci.advData: [reported, eirLength, eirData]
    scanPc,         \* per Scan caller: position in Adapter.Scan
    scanRet,        \* per Scan caller: value returned by its last Scan call
    scanCmds,       \* per Scan caller: HCI commands issued by its current/last call
    stopPc,         \* position of the StopScan caller
    stopRet,        \* value returned by the last StopScan call
    stopCmds,       \* HCI commands issued by the last StopScan call
    reportsLeft,    \* advertisement reports the transport may still surface
    delivered,      \* callback invocations: sequence of decoded AdvertisementFields
    lastReads,      \* buffer indices read while decoding the last report
    lastEirLength,  \* declared length of the last decoded report
    cbAfterStop,    \* a callback ran after StopScan returned nil for that scan
    \* ---- Connection establisher / registry
    connPc,         \* position of the Connect caller
    connRet,        \* [err, dev] returned by the last Connect call
    connectData,    \* a.hci.connectData: [connected, handle, peerBdaddr]
    connections,    \* Connection Registry (a.connections)
    connAddr,       \* address argument of the running Connect call
    elapsed,        \* whole seconds since `start` (line 183)
    cancelCmds,     \* leCancelConn commands issued by the current/last Connect
    connEvents,     \* connect-complete events observed by the current/last Connect
    cancelFailed,   \* leCancelConn returned an error to the current/last Connect
    connCalls,      \* Connect calls made so far
    notifRegs,      \* per connection: deviceInternal.notificationRegistrations
    found,          \* what the last findNotificationRegistration returned
    regOps,         \* registration calls made so far
    \* ---- Advertisement controller
    adv,            \* the Advertisement struct (defaultAdvertisement)
    advPc,          \* position of the Configure/Start/Stop caller
    advRet,         \* value returned by the last Start/Stop call
    advLog,         \* HCI commands written by the last Start/Stop call
    tasksSelect,    \* background tasks standing at the select (line 417)
    tasksPoll,      \* background tasks between att.poll and the sleep (423-430)
    addServiceLog,  \* AddService calls: <<service, index of the Configure call>>
    configureCalls, \* Configure calls made so far
    startCalls,     \* Start calls made so far
    stopCalls,      \* Stop calls made so far
    spawned,        \* tasks spawned by the last Start call
    lastOp          \* last Advertisement method that returned

scanVars == <<scanning, advData, scanPc, scanRet, scanCmds, stopPc, stopRet,
              stopCmds, reportsLeft, delivered, lastReads, lastEirLength,
              cbAfterStop>>
regVars  == <<notifRegs, found, regOps>>
connVars == <<connPc, connRet, connectData, connections, connAddr, elapsed,
              cancelCmds, connEvents, cancelFailed, connCalls, regVars>>
advVars  == <<adv, advPc, advRet, advLog, tasksSelect, tasksPoll, addServiceLog,
              configureCalls, startCalls, stopCalls, spawned, lastOp>>
vars == <<scanVars, connVars, advVars>>

-----------------------------------------------------------------------------
(* Program constants *)

defaultMTU == 23
ADTypeGeneralDiscoverable == 2
ADTypeFlagsBREDRNotSupported == 4
ADFlags == 1
ADIncompleteAdvertisedService16 == 2
ADCompleteAdvertisedService16 == 3
ADIncompleteAdvertisedService128 == 6
ADCompleteAdvertisedService128 == 7
ADShortLocalName == 8
ADCompleteLocalName == 9
ADServiceData == 22
ADManufacturerData == 255
\* size of the advertisingData / scanResponseData arrays, and the packet cap
PacketCap == 31
\* longest local name that is written in full
MaxNameLen == 29
\* default advertising interval (1.28 s)
DefaultInterval == 2048
\* connect deadline, whole seconds
ConnectTimeout == 5

-----------------------------------------------------------------------------
(* Bounds of the model *)

\* Scan callers running concurrently
MaxScanners == 2
\* advertisement reports the transport surfaces in one run
MaxReports == 2
\* Configure calls in one run
MaxConfigure == 2
\* Start calls in one run
MaxStart == 2
\* Stop calls in one run
MaxStop == 2
\* Connect calls in one run
MaxConnect == 2
\* seconds the clock may run past the connect deadline
MaxOverrun == 2
\* registration calls (add, find, use of the found entry) in one run
MaxRegOps == 3

-----------------------------------------------------------------------------
(* Bytes, arrays, uint8 arithmetic *)

U8(x) == x % 256
U16Lo(x) == x % 256
U16Hi(x) == (x \div 256) % 256
Zeros(n) == [i \in 1..n |-> 0]
Fill(n, b) == [i \in 1..n |-> b]
Reverse(s) == [i \in 1..Len(s) |-> s[Len(s) + 1 - i]]

-----------------------------------------------------------------------------
(* UUID (uuid.go): a UUID is its 16 raw bytes as Bytes() returns them,     *)
(* least significant byte first; 16- and 32-bit UUIDs sit on the Bluetooth *)
(* base UUID.                                                              *)

BaseUUID12 == <<251, 52, 155, 95, 128, 0, 0, 128, 0, 16, 0, 0>>
New16BitUUID(v) == BaseUUID12 \o <<U16Lo(v), U16Hi(v), 0, 0>>
New32BitUUID(v, w) == BaseUUID12 \o <<U16Lo(v), U16Hi(v), U16Lo(w), U16Hi(w)>>
Is32Bit(u) == SubSeq(u, 1, 12) = BaseUUID12
Is16Bit(u) == Is32Bit(u) /\ u[15] = 0 /\ u[16] = 0
Get16Bit(u) == u[13] + 256 * u[14]
Bytes(u) == u

-----------------------------------------------------------------------------
(* Packet building.  An encoder state is [buf, n, st]: the 31-byte array,  *)
(* the uint8 length counter and "ok", "panic" (index or slice out of       *)
(* range) or the error returned.                                           *)

NewPacket == [buf |-> Zeros(PacketCap), n |-> 0, st |-> "ok"]

\* arr[idx] = val
PutByte(e, idx, val) ==
    IF e.st # "ok" THEN e
    ELSE IF idx >= PacketCap THEN [e EXCEPT !.st = "panic"]
    ELSE [e EXCEPT !.buf[idx + 1] = val]

\* copy(arr[start:], data)
CopyAt(e, start, data) ==
    IF e.st # "ok" THEN e
    ELSE IF start > PacketCap THEN [e EXCEPT !.st = "panic"]
    ELSE [e EXCEPT !.buf = [i \in 1..PacketCap |->
            IF i - 1 >= start /\ i - start <= Len(data)
            THEN data[i - start] ELSE e.buf[i]]]

\* binary.LittleEndian.PutUint16(arr[start:], v)
PutUint16At(e, start, v) ==
    IF e.st # "ok" THEN e
    ELSE IF start > PacketCap \/ PacketCap - start < 2 THEN [e EXCEPT !.st = "panic"]
    ELSE [e EXCEPT !.buf[start + 1] = U16Lo(v), !.buf[start + 2] = U16Hi(v)]

\* arr[:n]
PacketOf(e) == SubSeq(e.buf, 1, e.n)

\* Start, lines 357-363: the Flags structure
EncodeFlags ==
    LET e0 == PutByte(NewPacket, 0, 2)
        e1 == PutByte(e0, 1, ADFlags)
        e2 == PutByte(e1, 2, ADTypeGeneralDiscoverable + ADTypeFlagsBREDRNotSupported)
    IN  [e2 EXCEPT !.n = U8(e2.n + 3)]

\* Start, lines 366-384: the single service UUID
EncodeServiceUUID(e, uuids) ==
    IF Len(uuids) # 1 THEN e
    ELSE
      LET uuid == uuids[1]
          sz == IF Is16Bit(uuid) THEN 2 ELSE IF Is32Bit(uuid) THEN 6 ELSE 0
          e1 == IF Is16Bit(uuid) THEN PutUint16At(e, 5, Get16Bit(uuid))
                ELSE IF Is32Bit(uuid) THEN CopyAt(e, 5, Reverse(Bytes(uuid)))
                ELSE e
          e2 == PutByte(e1, 3, 3)
          e3 == PutByte(e2, 4, ADCompleteAdvertisedService16)
      IN  [e3 EXCEPT !.n = U8(e3.n + U8(sz + 2))]

\* Start, line 388: the length check, in uint8 arithmetic
MDTooLong(n, md) == U8(U8(n + 4) + U8(Len(md.Data))) > 31

\* Start, lines 387-399: one manufacturer-data element
EncodeMDElem(e, md) ==
    IF e.st # "ok" THEN e
    ELSE IF MDTooLong(e.n, md) THEN [e EXCEPT !.st = "ManufacturerData too long"]
    ELSE
      LET e1 == PutByte(e, e.n, U8(3 + U8(Len(md.Data))))
          e2 == PutByte(e1, U8(e.n + 1), ADManufacturerData)
          e3 == PutUint16At(e2, U8(e.n + 2), md.CompanyID)
          e4 == CopyAt(e3, U8(e.n + 4), md.Data)
      IN  IF e4.st # "ok" THEN e4
          ELSE [e4 EXCEPT !.n = U8(e.n + U8(4 + U8(Len(md.Data))))]

RECURSIVE EncodeMD(_, _)
EncodeMD(e, mds) ==
    IF mds = <<>> THEN e ELSE EncodeMD(EncodeMDElem(e, Head(mds)), Tail(mds))

\* Start, lines 357-400: the advertising-data packet
EncodeAdvertisingData(a) ==
    EncodeMD(EncodeServiceUUID(EncodeFlags, a.serviceUUIDs), a.manufacturerData)

\* setServiceData, lines 458-469: the local name
ShortNameTag == ADShortLocalName
LongNameTag == ADCompleteLocalName
EncodeLocalName(name) ==
    IF Len(name) > MaxNameLen THEN
      LET e0 == PutByte(NewPacket, 0, 1 + MaxNameLen)
          e1 == PutByte(e0, 1, LongNameTag)
          e2 == CopyAt(e1, 2, SubSeq(name, 1, MaxNameLen))
      IN  [e2 EXCEPT !.n = 31]
    ELSE IF Len(name) > 0 THEN
      LET e0 == PutByte(NewPacket, 0, U8(1 + Len(name)))
          e1 == PutByte(e0, 1, ShortNameTag)
          e2 == CopyAt(e1, 2, name)
      IN  [e2 EXCEPT !.n = U8(2 + Len(name))]
    ELSE NewPacket

\* setServiceData, line 473: the length check, in uint8 arithmetic
SDTooLong(n, sde) == U8(U8(n + 4) + U8(Len(sde.Data))) > 31

\* setServiceData, lines 472-489: one service-data element
EncodeSDElem(e, sde) ==
    IF e.st # "ok" THEN e
    ELSE IF SDTooLong(e.n, sde) THEN [e EXCEPT !.st = "ServiceData too long"]
    ELSE IF ~Is16Bit(sde.UUID) /\ Is32Bit(sde.UUID)
      THEN [e EXCEPT !.st = "32-bit ServiceData UUIDs not yet supported"]
    ELSE
      LET e1 == IF Is16Bit(sde.UUID)
                THEN PutUint16At(e, U8(e.n + 2), Get16Bit(sde.UUID)) ELSE e
          e2 == PutByte(e1, e.n, U8(3 + U8(Len(sde.Data))))
          e3 == PutByte(e2, U8(e.n + 1), ADServiceData)
          e4 == CopyAt(e3, U8(e.n + 4), sde.Data)
      IN  IF e4.st # "ok" THEN e4
          ELSE [e4 EXCEPT !.n = U8(e.n + U8(4 + U8(Len(sde.Data))))]

RECURSIVE EncodeSD(_, _)
EncodeSD(e, sds) ==
    IF sds = <<>> THEN e ELSE EncodeSD(EncodeSDElem(e, Head(sds)), Tail(sds))

\* setServiceData, lines 455-490: the scan-response packet
EncodeScanResponse(a) == EncodeSD(EncodeLocalName(a.localName), a.serviceData)

\* The size the structures of a packet really take (no wrap-around)
RECURSIVE TrueElemsSize(_)
TrueElemsSize(elems) ==
    IF elems = <<>> THEN 0 ELSE 4 + Len(Head(elems).Data) + TrueElemsSize(Tail(elems))

-----------------------------------------------------------------------------
(* Advertisement controller *)

TinyGo == <<84, 105, 110, 121, 71, 111>>
GoBluetooth == <<71, 111, 32, 66, 108, 117, 101, 116, 111, 111, 116, 104>>
NameOfLen(n) == [i \in 1..n |-> 97 + (i % 26)]

\* var defaultAdvertisement Advertisement, after DefaultAdvertisement()
AdvInit ==
    [advertisementType |-> 0, localName |-> <<>>, serviceUUIDs |-> <<>>,
     interval |-> 0, manufacturerData |-> <<>>, serviceData |-> <<>>,
     genericServiceInit |-> FALSE]

Cmd(c, d) == [cmd |-> c, data |-> d]

\* configureGenericServices: the services added by Configure call number k
GenericServices(k) == << <<"GenericAccess", k>>, <<"GenericAttribute", k>> >>
\* the same without the genericServiceInit guard
configureGenericServicesUnguarded(a, log, k) ==
    [a |-> [a EXCEPT !.genericServiceInit = TRUE], log |-> log \o GenericServices(k)]
configureGenericServices(a, log, k) ==
    IF a.genericServiceInit THEN [a |-> a, log |-> log]
    ELSE [a |-> [a EXCEPT !.genericServiceInit = TRUE],
          log |-> log \o GenericServices(k)]

\* Advertisement.Configure
Configure(options) ==
    /\ advPc = "idle"
    /\ LET a1 == [adv EXCEPT
                    !.advertisementType = options.AdvertisementType,
                    !.localName = IF options.LocalName # <<>>
                                  THEN options.LocalName ELSE TinyGo,
                    !.serviceUUIDs = options.ServiceUUIDs,
                    !.interval = IF options.Interval % 65536 = 0
                                 THEN DefaultInterval ELSE options.Interval % 65536,
                    !.manufacturerData = options.ManufacturerData,
                    !.serviceData = options.ServiceData]
           r == configureGenericServices(a1, addServiceLog, configureCalls + 1)
       IN  /\ adv' = r.a
           /\ addServiceLog' = r.log
    /\ configureCalls' = configureCalls + 1
    /\ lastOp' = "Configure"
    /\ UNCHANGED <<advPc, advRet, advLog, tasksSelect, tasksPoll, startCalls,
                   stopCalls, spawned>>
    /\ UNCHANGED <<scanVars, connVars>>

\* Advertisement.Start up to the spawn of the task: [ret, log, spawn].
\* failAt = k makes the k-th HCI command of the call return an error.
StartRun(a, failAt) ==
    LET params == <<Cmd("leSetAdvertisingParameters", <<a.interval, a.advertisementType>>)>>
        ad == EncodeAdvertisingData(a)
        log2 == params \o <<Cmd("leSetAdvertisingData", PacketOf(ad))>>
        sr == EncodeScanResponse(a)
        log3 == log2 \o <<Cmd("leSetScanResponseData", PacketOf(sr))>>
        log4 == log3 \o <<Cmd("leSetAdvertiseEnable", <<1>>)>>
    IN  IF failAt = 1 THEN [ret |-> "hciErr", log |-> params, spawn |-> 0]
        ELSE IF ad.st # "ok" THEN [ret |-> ad.st, log |-> params, spawn |-> 0]
        ELSE IF failAt = 2 THEN [ret |-> "hciErr", log |-> log2, spawn |-> 0]
        ELSE IF sr.st # "ok" THEN [ret |-> sr.st, log |-> log2, spawn |-> 0]
        ELSE IF failAt = 3 THEN [ret |-> "hciErr", log |-> log3, spawn |-> 0]
        ELSE IF failAt = 4 THEN [ret |-> "hciErr", log |-> log4, spawn |-> 0]
        ELSE [ret |-> "nil", log |-> log4, spawn |-> 1]

\* Advertisement.Start
Start(failAt) ==
    /\ advPc = "idle"
    /\ LET r == StartRun(adv, failAt)
       IN  /\ advRet' = r.ret
           /\ advLog' = r.log
           /\ spawned' = r.spawn
           /\ tasksSelect' = tasksSelect + r.spawn
    /\ startCalls' = startCalls + 1
    /\ lastOp' = "Start"
    /\ UNCHANGED <<adv, advPc, tasksPoll, addServiceLog, configureCalls, stopCalls>>
    /\ UNCHANGED <<scanVars, connVars>>

\* Advertisement.Stop, lines 439-446: disable advertising, clear local data
StopBegin(fail) ==
    /\ advPc = "idle"
    /\ advLog' = <<Cmd("leSetAdvertiseEnable", <<0>>)>>
    /\ stopCalls' = stopCalls + 1
    /\ spawned' = 0
    /\ IF fail
       THEN advRet' = "hciErr" /\ lastOp' = "Stop" /\ advPc' = "idle"
       ELSE advRet' = "pending" /\ lastOp' = lastOp /\ advPc' = "stopSend"
    /\ UNCHANGED <<adv, tasksSelect, tasksPoll, addServiceLog, configureCalls,
                   startCalls>>
    /\ UNCHANGED <<scanVars, connVars>>

\* Advertisement.Stop, line 447, meeting a task's `case <-a.stop: return`
StopRendezvous ==
    /\ advPc = "stopSend"
    /\ tasksSelect > 0
    /\ tasksSelect' = tasksSelect - 1
    /\ advPc' = "idle"
    /\ advRet' = "nil"
    /\ lastOp' = "Stop"
    /\ UNCHANGED <<adv, advLog, tasksPoll, addServiceLog, configureCalls,
                   startCalls, stopCalls, spawned>>
    /\ UNCHANGED <<scanVars, connVars>>

\* background task, lines 417-423: nothing to receive, take the default case
TaskDefault ==
    /\ tasksSelect > 0
    /\ advPc # "stopSend"
    /\ tasksSelect' = tasksSelect - 1
    /\ tasksPoll' = tasksPoll + 1
    /\ UNCHANGED <<adv, advPc, advRet, advLog, addServiceLog, configureCalls,
                   startCalls, stopCalls, spawned, lastOp>>
    /\ UNCHANGED <<scanVars, connVars>>

\* background task, lines 423-431: att.poll, sleep, loop
TaskPoll ==
    /\ tasksPoll > 0
    /\ tasksPoll' = tasksPoll - 1
    /\ tasksSelect' = tasksSelect + 1
    /\ UNCHANGED <<adv, advPc, advRet, advLog, addServiceLog, configureCalls,
                   startCalls, stopCalls, spawned, lastOp>>
    /\ UNCHANGED <<scanVars, connVars>>

Tasks == tasksSelect + tasksPoll

\* Inputs of Configure
TemperatureUUID == New16BitUUID(10862)
UUID16 == New16BitUUID(6159)
UUID32 == New32BitUUID(4660, 22136)
UUID128 == [i \in 1..16 |-> 16 + i]
MDElem(n) == [CompanyID |-> 4660, Data |-> Fill(n, 171)]
SDElem(u, n) == [UUID |-> u, Data |-> Fill(n, 205)]
Options(name, uuids, md, sd, itv) ==
    [AdvertisementType |-> 0, LocalName |-> name, ServiceUUIDs |-> uuids,
     Interval |-> itv, ManufacturerData |-> md, ServiceData |-> sd]

\* Sequences over S of length at most n
RECURSIVE SeqsUpTo(_, _)
SeqsUpTo(S, n) ==
    IF n = 0 THEN {<<>>}
    ELSE LET shorter == SeqsUpTo(S, n - 1)
         IN  shorter \cup {Append(s, x) : s \in shorter, x \in S}

\* elements per manufacturer-data / service-data list
MaxElems == 2
\* the options of the example program, and a blank name
LifecycleOptions ==
    {Options(nm, <<>>, <<>>, sd, 0) :
        nm \in {<<>>, GoBluetooth}, sd \in {<<>>, <<SDElem(TemperatureUUID, 2)>>}}
MDLens == {0, 4, 24, 25, 253, 256}
SDLens == {0, 2, 19, 20, 221, 250}
EncodeNames == {<<>>, <<90>>, GoBluetooth, NameOfLen(29), NameOfLen(30)}
EncodeUUIDs == {<<>>, <<UUID16>>, <<UUID32>>, <<UUID128>>, <<UUID16, TemperatureUUID>>}
EncodeOptions ==
    {Options(<<>>, us, md, <<>>, 160) :
        us \in EncodeUUIDs, md \in SeqsUpTo({MDElem(n) : n \in MDLens}, MaxElems)}
    \cup
    {Options(nm, <<>>, <<>>, sd, 0) :
        nm \in EncodeNames,
        sd \in SeqsUpTo({SDElem(UUID16, n) : n \in SDLens}
                        \cup {SDElem(UUID32, 2), SDElem(UUID128, 2)}, MaxElems)}


-----------------------------------------------------------------------------
(* Scan engine *)

Scanners == 1..MaxScanners

NoAdvData == [reported |-> FALSE, eirLength |-> 0, eirData |-> Zeros(PacketCap)]
EmptyFields == [ServiceUUIDs |-> <<>>, LocalName |-> <<>>]

\* uuid.go NewUUID: the 16 bytes are taken most significant byte first
NewUUID(b) == Reverse(b)

\* eirData[lo:hi] with 0-based bounds, as a sequence
Slice(data, lo, hi) == SubSeq(data, lo + 1, hi)

\* One structure of the report at offset i (lines 76-100).  d is
\* [adf, reads, panic, i, done]: the fields so far, the indices read, whether
\* an index or slice bound was out of range, the next offset, loop left.
DecodeStep(data, d) ==
    LET i == d.i
        cap == Len(data)
    IN  IF i + 1 >= cap
        THEN [d EXCEPT !.panic = TRUE, !.done = TRUE,
                       !.reads = d.reads \cup {k \in {i, i + 1} : k < cap}]
        ELSE
          LET l == data[i + 1]
              t == data[i + 2]
              r1 == d.reads \cup {i, i + 1}
          IN  IF l < 1 THEN [d EXCEPT !.reads = r1, !.done = TRUE]
              ELSE IF t \in {ADIncompleteAdvertisedService16, ADCompleteAdvertisedService16}
              THEN IF i + 4 > cap
                   THEN [d EXCEPT !.reads = r1, !.panic = TRUE, !.done = TRUE]
                   ELSE [d EXCEPT
                          !.reads = r1 \cup {i + 2, i + 3},
                          !.adf.ServiceUUIDs = Append(@,
                              New16BitUUID(data[i + 3] + 256 * data[i + 4])),
                          !.i = i + l + 1]
              ELSE IF t \in {ADIncompleteAdvertisedService128, ADCompleteAdvertisedService128}
              THEN IF i + 18 > cap
                   THEN [d EXCEPT !.reads = r1, !.panic = TRUE, !.done = TRUE]
                   ELSE [d EXCEPT
                          !.reads = r1 \cup (i + 2)..(i + 17),
                          !.adf.ServiceUUIDs = Append(@, NewUUID(Slice(data, i + 2, i + 18))),
                          !.i = i + l + 1]
              ELSE IF t \in {ADShortLocalName, ADCompleteLocalName}
              THEN IF i + 1 + l > cap
                   THEN [d EXCEPT !.reads = r1, !.panic = TRUE, !.done = TRUE]
                   ELSE [d EXCEPT
                          !.reads = r1 \cup (i + 2)..(i + l),
                          !.adf.LocalName = Slice(data, i + 2, i + 1 + l),
                          !.i = i + l + 1]
              ELSE [d EXCEPT !.reads = r1, !.i = i + l + 1]

\* the loop of line 75
RECURSIVE DecodeLoop(_, _, _)
DecodeLoop(data, eirLength, d) ==
    IF d.done \/ ~(d.i < eirLength) THEN d
    ELSE DecodeLoop(data, eirLength, DecodeStep(data, d))

\* Scan, lines 65-101: decoding of the pending report
Decode(data, eirLength) ==
    DecodeLoop(data, eirLength,
               [adf |-> EmptyFields, reads |-> {}, panic |-> FALSE, i |-> 0,
                done |-> FALSE])

\* Scan, line 36
ScanCheck(t) ==
    /\ scanPc[t] = "idle"
    /\ scanCmds' = [scanCmds EXCEPT ![t] = <<>>]
    /\ IF scanning
       THEN /\ scanRet' = [scanRet EXCEPT ![t] = "errScanning"]
            /\ scanPc' = scanPc
       ELSE /\ scanRet' = [scanRet EXCEPT ![t] = "running"]
            /\ scanPc' = [scanPc EXCEPT ![t] = "disable"]
    /\ UNCHANGED <<scanning, advData, stopPc, stopRet, stopCmds, reportsLeft,
                   delivered, lastReads, lastEirLength, cbAfterStop>>
    /\ UNCHANGED <<connVars, advVars>>

\* Scan, lines 40-42: leSetScanEnable(false, true)
ScanDisable(t, fail) ==
    /\ scanPc[t] = "disable"
    /\ scanCmds' = [scanCmds EXCEPT ![t] = Append(@, "leSetScanEnable(false)")]
    /\ IF fail
       THEN /\ scanRet' = [scanRet EXCEPT ![t] = "hciErr"]
            /\ scanPc' = [scanPc EXCEPT ![t] = "idle"]
       ELSE /\ scanRet' = scanRet
            /\ scanPc' = [scanPc EXCEPT ![t] = "params"]
    /\ UNCHANGED <<scanning, advData, stopPc, stopRet, stopCmds, reportsLeft,
                   delivered, lastReads, lastEirLength, cbAfterStop>>
    /\ UNCHANGED <<connVars, advVars>>

\* Scan, lines 45-47: leSetScanParameters
ScanParams(t, fail) ==
    /\ scanPc[t] = "params"
    /\ scanCmds' = [scanCmds EXCEPT ![t] = Append(@, "leSetScanParameters")]
    /\ IF fail
       THEN /\ scanRet' = [scanRet EXCEPT ![t] = "hciErr"]
            /\ scanPc' = [scanPc EXCEPT ![t] = "idle"]
       ELSE /\ scanRet' = scanRet
            /\ scanPc' = [scanPc EXCEPT ![t] = "enable"]
    /\ UNCHANGED <<scanning, advData, stopPc, stopRet, stopCmds, reportsLeft,
                   delivered, lastReads, lastEirLength, cbAfterStop>>
    /\ UNCHANGED <<connVars, advVars>>

\* Scan, lines 49-54: set the flag, leSetScanEnable(true, false)
ScanEnable(t, fail) ==
    /\ scanPc[t] = "enable"
    /\ scanning' = TRUE
    /\ scanCmds' = [scanCmds EXCEPT ![t] = Append(@, "leSetScanEnable(true)")]
    /\ IF fail
       THEN /\ scanRet' = [scanRet EXCEPT ![t] = "hciErr"]
            /\ scanPc' = [scanPc EXCEPT ![t] = "idle"]
       ELSE /\ scanRet' = scanRet
            /\ scanPc' = [scanPc EXCEPT ![t] = "poll"]
    /\ UNCHANGED <<advData, stopPc, stopRet, stopCmds, reportsLeft, delivered,
                   lastReads, lastEirLength, cbAfterStop>>
    /\ UNCHANGED <<connVars, advVars>>

\* Scan, lines 59-61: a.hci.poll() fails
ScanPollErr(t) ==
    /\ scanPc[t] = "poll"
    /\ scanRet' = [scanRet EXCEPT ![t] = "hciErr"]
    /\ scanPc' = [scanPc EXCEPT ![t] = "idle"]
    /\ UNCHANGED <<scanning, advData, scanCmds, stopPc, stopRet, stopCmds,
                   reportsLeft, delivered, lastReads, lastEirLength, cbAfterStop>>
    /\ UNCHANGED <<connVars, advVars>>

\* Scan, line 59: a.hci.poll() succeeds and surfaces no event
ScanPollNone(t) ==
    /\ scanPc[t] = "poll"
    /\ scanPc' = [scanPc EXCEPT ![t] = "handle"]
    /\ UNCHANGED <<scanning, advData, scanRet, scanCmds, stopPc, stopRet,
                   stopCmds, reportsLeft, delivered, lastReads, lastEirLength,
                   cbAfterStop>>
    /\ UNCHANGED <<connVars, advVars>>

\* Scan, line 59: a.hci.poll() succeeds and surfaces advertisement report r
ScanPollReport(t, r) ==
    /\ scanPc[t] = "poll"
    /\ ~advData.reported
    /\ reportsLeft > 0
    /\ reportsLeft' = reportsLeft - 1
    /\ advData' = [reported |-> TRUE, eirLength |-> r.eirLength, eirData |-> r.eirData]
    /\ scanPc' = [scanPc EXCEPT ![t] = "handle"]
    /\ UNCHANGED <<scanning, scanRet, scanCmds, stopPc, stopRet, stopCmds,
                   delivered, lastReads, lastEirLength, cbAfterStop>>
    /\ UNCHANGED <<connVars, advVars>>

\* Scan, lines 63-132: the switch of one loop iteration
ScanHandle(t) ==
    /\ scanPc[t] = "handle"
    /\ IF advData.reported
       THEN IF advData.eirLength > 31
            THEN /\ advData' = NoAdvData
                 /\ scanPc' = [scanPc EXCEPT ![t] = "poll"]
                 /\ UNCHANGED <<scanRet, delivered, lastReads, lastEirLength, cbAfterStop>>
            ELSE LET d == Decode(advData.eirData, advData.eirLength)
                 IN  /\ lastReads' = d.reads
                     /\ lastEirLength' = advData.eirLength
                     /\ IF d.panic
                        THEN /\ scanRet' = [scanRet EXCEPT ![t] = "panic"]
                             /\ scanPc' = [scanPc EXCEPT ![t] = "panicked"]
                             /\ UNCHANGED <<advData, delivered, cbAfterStop>>
                        ELSE /\ delivered' = Append(delivered, d.adf)
                             /\ cbAfterStop' = (cbAfterStop \/ ~scanning)
                             /\ advData' = NoAdvData
                             /\ scanPc' = [scanPc EXCEPT ![t] = "poll"]
                             /\ scanRet' = scanRet
       ELSE /\ IF ~scanning
               THEN /\ scanRet' = [scanRet EXCEPT ![t] = "nil"]
                    /\ scanPc' = [scanPc EXCEPT ![t] = "idle"]
               ELSE /\ scanRet' = scanRet
                    /\ scanPc' = [scanPc EXCEPT ![t] = "poll"]
            /\ UNCHANGED <<advData, delivered, lastReads, lastEirLength, cbAfterStop>>
    /\ UNCHANGED <<scanning, scanCmds, stopPc, stopRet, stopCmds, reportsLeft>>
    /\ UNCHANGED <<connVars, advVars>>

\* StopScan, line 139
StopScanCheck ==
    /\ stopPc = "idle"
    /\ stopCmds' = <<>>
    /\ IF ~scanning
       THEN stopRet' = "errNotScanning" /\ stopPc' = "idle"
       ELSE stopRet' = "running" /\ stopPc' = "disable"
    /\ UNCHANGED <<scanning, advData, scanPc, scanRet, scanCmds, reportsLeft,
                   delivered, lastReads, lastEirLength, cbAfterStop>>
    /\ UNCHANGED <<connVars, advVars>>

\* StopScan, lines 143-149: leSetScanEnable(false, false), clear the flag
\* the same with the flag cleared whether or not the command succeeded
FlagAfterStopScanAlwaysCleared(fail, flag) == FALSE
\* StopScan, lines 143-148: the flag is cleared only past the error return
FlagAfterStopScan(fail, flag) == IF fail THEN flag ELSE FALSE
StopScanDisable(fail) ==
    /\ stopPc = "disable"
    /\ stopCmds' = Append(stopCmds, "leSetScanEnable(false)")
    /\ stopPc' = "idle"
    /\ stopRet' = IF fail THEN "hciErr" ELSE "nil"
    /\ scanning' = FlagAfterStopScan(fail, scanning)
    /\ UNCHANGED <<advData, scanPc, scanRet, scanCmds, reportsLeft, delivered,
                   lastReads, lastEirLength, cbAfterStop>>
    /\ UNCHANGED <<connVars, advVars>>

\* Reports the transport may surface
Report(n, prefix) ==
    [eirLength |-> n,
     eirData |-> [i \in 1..PacketCap |-> IF i <= Len(prefix) THEN prefix[i] ELSE 0]]
\* bytes of the varied part of a report
MaxPrefix == 3
ReportBytes == {0, 1, 2, 3, 7, 9, 29, 30}
ReportLens == {0, 1, 2, 3, 4, 30, 31, 32}
LifecycleReports ==
    {Report(3, <<2, 1, 6>>), Report(4, <<3, 3, 15, 24>>), Report(32, <<2, 1, 6>>)}
DecodeReports ==
    {Report(n, p) : n \in ReportLens, p \in SeqsUpTo(ReportBytes, MaxPrefix)}


-----------------------------------------------------------------------------
(* Connection establisher *)

NoDevice == [present |-> FALSE]
NoConnectData == [connected |-> FALSE, handle |-> 0, peerBdaddr |-> Zeros(6)]

\* makeAddress (the peer address as the controller reports it)
makeAddress(b) == b

\* the same with the MAC taken from the address Connect was called with
NewDeviceOfRequestedAddress(address, cd) ==
    [present |-> TRUE,
     Address |-> [MAC |-> address.MAC, isRandom |-> address.isRandom],
     handle |-> cd.handle,
     mtu |-> defaultMTU,
     notificationRegistrations |-> <<>>]
\* Connect, lines 197-209: the Device built from the connect-complete event
NewDevice(address, cd) ==
    [present |-> TRUE,
     Address |-> [MAC |-> makeAddress(cd.peerBdaddr), isRandom |-> address.isRandom],
     handle |-> cd.handle,
     mtu |-> defaultMTU,
     notificationRegistrations |-> <<>>]

\* Adapter.addConnection
addConnection(reg, d) == Append(reg, d)

\* Connect, lines 163-183: leCreateConn, start of the deadline
ConnectBegin(address, fail) ==
    /\ connPc = "idle"
    /\ connCalls < MaxConnect
    /\ connCalls' = connCalls + 1
    /\ connAddr' = address
    /\ cancelCmds' = 0
    /\ connEvents' = 0
    /\ cancelFailed' = FALSE
    /\ elapsed' = 0
    /\ IF fail
       THEN connRet' = [err |-> "hciErr", dev |-> NoDevice] /\ connPc' = "idle"
       ELSE connRet' = [err |-> "running", dev |-> NoDevice] /\ connPc' = "poll"
    /\ UNCHANGED <<connectData, connections>>
    /\ UNCHANGED <<scanVars, advVars, regVars>>

\* the wall clock advances by a second while Connect runs
Tick ==
    /\ connPc # "idle"
    /\ elapsed < ConnectTimeout + MaxOverrun
    /\ elapsed' = elapsed + 1
    /\ UNCHANGED <<connPc, connRet, connectData, connections, connAddr,
                   cancelCmds, connEvents, cancelFailed, connCalls>>
    /\ UNCHANGED <<scanVars, advVars, regVars>>

\* Connect, line 216: the deadline test, in whole seconds
TimedOut(secs) == secs > ConnectTimeout

\* Connect, lines 185-187: a.hci.poll() fails
ConnectPollErr ==
    /\ connPc = "poll"
    /\ connRet' = [err |-> "hciErr", dev |-> NoDevice]
    /\ connPc' = "idle"
    /\ UNCHANGED <<connectData, connections, connAddr, elapsed, cancelCmds,
                   connEvents, cancelFailed, connCalls>>
    /\ UNCHANGED <<scanVars, advVars, regVars>>

\* Connect, lines 185-221: poll surfaces nothing; check the deadline, sleep
ConnectPollNone ==
    /\ connPc = "poll"
    /\ ~connectData.connected
    /\ connPc' = IF TimedOut(elapsed) THEN "cancel" ELSE "poll"
    /\ UNCHANGED <<connRet, connectData, connections, connAddr, elapsed,
                   cancelCmds, connEvents, cancelFailed, connCalls>>
    /\ UNCHANGED <<scanVars, advVars, regVars>>

\* Connect, lines 185-189: poll surfaces a connect-complete event
ConnectPollConnected(h, peer) ==
    /\ connPc = "poll"
    /\ connectData' = [connected |-> TRUE, handle |-> h, peerBdaddr |-> peer]
    /\ connEvents' = connEvents + 1
    /\ connPc' = "connected"
    /\ UNCHANGED <<connRet, connections, connAddr, elapsed, cancelCmds,
                   cancelFailed, connCalls>>
    /\ UNCHANGED <<scanVars, advVars, regVars>>

\* Connect, lines 190-213: build the Device, register it, return it; the
\* deferred clearConnectData runs at the return
ConnectReturn ==
    /\ connPc = "connected"
    /\ LET d == NewDevice(connAddr, connectData)
       IN  /\ connections' = addConnection(connections, d)
           /\ connRet' = [err |-> "nil", dev |-> d]
    /\ connectData' = NoConnectData
    /\ connPc' = "idle"
    /\ UNCHANGED <<connAddr, elapsed, cancelCmds, connEvents, cancelFailed,
                   connCalls>>
    /\ UNCHANGED <<scanVars, advVars, regVars>>

\* Connect, lines 225-229: leCancelConn, the error returned
\* the same with the error of leCancelConn dropped
CancelResultIgnoringError(fail) == "ErrConnect"
CancelResult(fail) == IF fail THEN "hciErr" ELSE "ErrConnect"
ConnectCancel(fail) ==
    /\ connPc = "cancel"
    /\ cancelCmds' = cancelCmds + 1
    /\ cancelFailed' = fail
    /\ connRet' = [err |-> CancelResult(fail), dev |-> NoDevice]
    /\ connPc' = "idle"
    /\ UNCHANGED <<connectData, connections, connAddr, elapsed, connEvents,
                   connCalls>>
    /\ UNCHANGED <<scanVars, advVars, regVars>>

Addresses ==
    {[MAC |-> <<1, 2, 3, 4, 5, 6>>, isRandom |-> FALSE],
     [MAC |-> <<17, 34, 51, 68, 85, 102>>, isRandom |-> TRUE]}
PeerAddrs == {<<1, 2, 3, 4, 5, 6>>, <<17, 34, 51, 68, 85, 102>>}
Handles == {1, 64}


-----------------------------------------------------------------------------
(* Notification registrations.  A Device value embeds *deviceInternal        *)
(* (lines 238-241), so every copy of the Device of connection i reads and   *)
(* writes the one slice notifRegs[i].                                        *)

\* findNotificationRegistration returned nil
NoRegistration == [present |-> FALSE]
RegHandles == {3, 5}
Callbacks == {"cb1", "cb2"}

\* lines 275-279: position of the first entry with that handle, 0 if none
RECURSIVE FirstMatchFrom(_, _, _)
FirstMatchFrom(regs, handle, k) ==
    IF k > Len(regs) THEN 0
    ELSE IF regs[k].handle = handle THEN k
    ELSE FirstMatchFrom(regs, handle, k + 1)
FirstMatch(regs, handle) == FirstMatchFrom(regs, handle, 1)

\* addNotificationRegistration, lines 284-290, on a copy of Device i
addNotificationRegistration(i, handle, callback) ==
    /\ i <= Len(connections)
    /\ regOps < MaxRegOps
    /\ regOps' = regOps + 1
    /\ notifRegs' = [notifRegs EXCEPT ![i] =
                        Append(@, [handle |-> handle, callback |-> callback])]
    /\ UNCHANGED <<found, connPc, connRet, connectData, connections, connAddr,
                   elapsed, cancelCmds, connEvents, cancelFailed, connCalls>>
    /\ UNCHANGED <<scanVars, advVars>>

\* findNotificationRegistration, lines 274-282, on a copy of Device i: the
\* pointer returned is &n, the address of the range loop's variable, which
\* holds a copy of the entry; found.n is that variable
findNotificationRegistration(i, handle) ==
    /\ i <= Len(connections)
    /\ regOps < MaxRegOps
    /\ regOps' = regOps + 1
    /\ LET k == FirstMatch(notifRegs[i], handle)
       IN  found' = IF k = 0 THEN NoRegistration
                    ELSE [present |-> TRUE, dev |-> i, handle |-> handle,
                          n |-> notifRegs[i][k]]
    /\ UNCHANGED <<notifRegs, connPc, connRet, connectData, connections,
                   connAddr, elapsed, cancelCmds, connEvents, cancelFailed,
                   connCalls>>
    /\ UNCHANGED <<scanVars, advVars>>

\* the caller assigns a callback through the pointer it was returned
SetCallbackOfFound(callback) ==
    /\ found.present
    /\ regOps < MaxRegOps
    /\ regOps' = regOps + 1
    /\ found' = [found EXCEPT !.n.callback = callback]
    /\ UNCHANGED <<notifRegs, connPc, connRet, connectData, connections,
                   connAddr, elapsed, cancelCmds, connEvents, cancelFailed,
                   connCalls>>
    /\ UNCHANGED <<scanVars, advVars>>

-----------------------------------------------------------------------------
(* Specifications *)

Init ==
    /\ scanning = FALSE
    /\ advData = NoAdvData
    /\ scanPc = [t \in Scanners |-> "idle"]
    /\ scanRet = [t \in Scanners |-> "none"]
    /\ scanCmds = [t \in Scanners |-> <<>>]
    /\ stopPc = "idle"
    /\ stopRet = "none"
    /\ stopCmds = <<>>
    /\ reportsLeft = MaxReports
    /\ delivered = <<>>
    /\ lastReads = {}
    /\ lastEirLength = 0
    /\ cbAfterStop = FALSE
    /\ connPc = "idle"
    /\ connRet = [err |-> "none", dev |-> NoDevice]
    /\ connectData = NoConnectData
    /\ connections = <<>>
    /\ connAddr = CHOOSE a \in Addresses : ~a.isRandom
    /\ elapsed = 0
    /\ cancelCmds = 0
    /\ connEvents = 0
    /\ cancelFailed = FALSE
    /\ connCalls = 0
    /\ notifRegs = [i \in 1..MaxConnect |-> <<>>]
    /\ found = NoRegistration
    /\ regOps = 0
    /\ adv = AdvInit
    /\ advPc = "idle"
    /\ advRet = "none"
    /\ advLog = <<>>
    /\ tasksSelect = 0
    /\ tasksPoll = 0
    /\ addServiceLog = <<>>
    /\ configureCalls = 0
    /\ startCalls = 0
    /\ stopCalls = 0
    /\ spawned = 0
    /\ lastOp = "none"

\* Scan and StopScan callers running concurrently
NextScan ==
    \/ \E t \in Scanners : ScanCheck(t)
    \/ \E t \in Scanners, f \in BOOLEAN : ScanDisable(t, f)
    \/ \E t \in Scanners, f \in BOOLEAN : ScanParams(t, f)
    \/ \E t \in Scanners, f \in BOOLEAN : ScanEnable(t, f)
    \/ \E t \in Scanners : ScanPollErr(t)
    \/ \E t \in Scanners : ScanPollNone(t)
    \/ \E t \in Scanners, r \in LifecycleReports : ScanPollReport(t, r)
    \/ \E t \in Scanners : ScanHandle(t)
    \/ StopScanCheck
    \/ \E f \in BOOLEAN : StopScanDisable(f)
SpecScan == Init /\ [][NextScan]_vars

\* one Scan caller, fed one report of arbitrary content
NextDecode ==
    \/ ScanCheck(1)
    \/ \E f \in BOOLEAN : ScanDisable(1, f)
    \/ \E f \in BOOLEAN : ScanParams(1, f)
    \/ \E f \in BOOLEAN : ScanEnable(1, f)
    \/ ScanPollErr(1)
    \/ ScanPollNone(1)
    \/ \E r \in DecodeReports : reportsLeft = MaxReports /\ ScanPollReport(1, r)
    \/ ScanHandle(1)
    \/ StopScanCheck
    \/ \E f \in BOOLEAN : StopScanDisable(f)
SpecDecode == Init /\ [][NextDecode]_vars

\* Connect
NextConn ==
    \/ \E a \in Addresses, f \in BOOLEAN : ConnectBegin(a, f)
    \/ Tick
    \/ ConnectPollErr
    \/ ConnectPollNone
    \/ \E h \in Handles, p \in PeerAddrs : ConnectPollConnected(h, p)
    \/ ConnectReturn
    \/ \E f \in BOOLEAN : ConnectCancel(f)
SpecConn == Init /\ [][NextConn]_vars

\* Connect calls that succeed, and registrations on the Devices returned
NextReg ==
    \/ \E a \in Addresses : ConnectBegin(a, FALSE)
    \/ \E h \in Handles, p \in PeerAddrs : ConnectPollConnected(h, p)
    \/ ConnectReturn
    \/ \E i \in 1..MaxConnect, h \in RegHandles, cb \in Callbacks :
          addNotificationRegistration(i, h, cb)
    \/ \E i \in 1..MaxConnect, h \in RegHandles : findNotificationRegistration(i, h)
    \/ \E cb \in Callbacks : SetCallbackOfFound(cb)
SpecReg == Init /\ [][NextReg]_vars

\* Configure, Start and Stop called in any order, and the background tasks
NextAdv ==
    \/ \E o \in LifecycleOptions : configureCalls < MaxConfigure /\ Configure(o)
    \/ \E f \in 0..4 : startCalls < MaxStart /\ Start(f)
    \/ \E f \in BOOLEAN : stopCalls < MaxStop /\ StopBegin(f)
    \/ StopRendezvous
    \/ TaskDefault
    \/ TaskPoll
SpecAdv == Init /\ [][NextAdv]_vars

\* one Configure, Start and Stop over the encoder's input space
NextEncode ==
    \/ \E o \in EncodeOptions : configureCalls < 1 /\ Configure(o)
    \/ \E f \in 0..4 : startCalls < 1 /\ Start(f)
    \/ \E f \in BOOLEAN : stopCalls < 1 /\ StopBegin(f)
    \/ StopRendezvous
    \/ TaskDefault
    \/ TaskPoll
SpecEncode == Init /\ [][NextEncode]_vars

Next == NextScan \/ NextConn \/ NextAdv
Spec == Init /\ [][Next]_vars

-----------------------------------------------------------------------------
(* Properties *)

InLoop(t) == scanPc[t] \in {"poll", "handle"}

\* C1: a Scan call that finds the adapter scanning returns errScanning
\* without issuing an HCI command, and in every interleaving at most one
\* Scan call is in its poll loop at a time.
C1_AtMostOneScanLoop ==
    /\ \A t \in Scanners : scanRet[t] = "errScanning" => scanCmds[t] = <<>>
    /\ Cardinality({t \in Scanners : InLoop(t)}) <= 1

\* C2: in every state in which Stop has just returned nil, no background
\* polling task spawned by an earlier Start is still running.
C2_StopLeavesNoTask ==
    (lastOp = "Stop" /\ advRet = "nil") => Tasks = 0

\* C3: after any sequence of Configure, Start and Stop calls at most one
\* background polling task exists, and each successful Start spawns
\* exactly one.
C3_AtMostOneTask ==
    /\ Tasks <= 1
    /\ (lastOp = "Start" /\ advRet = "nil") => spawned = 1

\* C4 as stated: a Connect whose deadline elapses with no connect-complete
\* event issues exactly one cancel command, returns ErrConnect with an
\* empty Device and adds nothing to the registry; a Connect that observes
\* connect-complete issues no cancel command.
C4_TimeoutReturnsErrConnect ==
    /\ [][(connPc = "cancel" /\ connPc' = "idle") =>
            /\ cancelCmds' = 1
            /\ connRet' = [err |-> "ErrConnect", dev |-> NoDevice]
            /\ connections' = connections]_vars
    /\ [](connRet.err = "nil" => cancelCmds = 0)

\* C4 amended: such a Connect issues exactly one cancel command, only once
\* more than ConnectTimeout whole seconds have elapsed, and returns an empty
\* Device and adds nothing to the registry; it returns ErrConnect when the
\* cancel command succeeds and the transport's error when that command
\* fails.  A Connect that observes connect-complete issues no cancel.
C4_TimeoutCancelsOnce ==
    /\ [][(connPc = "cancel" /\ connPc' = "idle") =>
            /\ cancelCmds' = 1
            /\ connRet'.err = IF cancelFailed' THEN "hciErr" ELSE "ErrConnect"
            /\ connRet'.dev = NoDevice
            /\ connections' = connections]_vars
    /\ [](connRet.err = "ErrConnect" =>
            cancelCmds = 1 /\ connEvents = 0 /\ elapsed > ConnectTimeout)
    /\ [](connPc = "cancel" => elapsed > ConnectTimeout /\ cancelCmds = 0)
    /\ [](connRet.err = "nil" => cancelCmds = 0)
    /\ []((connPc = "idle" /\ connRet.err = "hciErr" /\ cancelCmds = 1) =>
            connEvents = 0 /\ elapsed > ConnectTimeout)

C4_Witness ==
    /\ connPc = "idle"
    /\ connRet = [err |-> "ErrConnect", dev |-> NoDevice]
    /\ cancelCmds = 1
    /\ elapsed > ConnectTimeout
    /\ Len(connections) = 1

\* C5: however many Configure calls are made, interleaved with any Start
\* and Stop calls, exactly two AddService registrations exist, Generic
\* Access and Generic Attribute, both made by the first Configure call.
C5_TwoGenericServices ==
    /\ configureCalls = 0 => addServiceLog = <<>>
    /\ configureCalls >= 1 =>
         addServiceLog = << <<"GenericAccess", 1>>, <<"GenericAttribute", 1>> >>

C5_Witness ==
    /\ configureCalls >= 2
    /\ startCalls >= 1
    /\ lastOp = "Stop"
    /\ Len(addServiceLog) = 2

\* what the structures of each packet add up to, without wrap-around
TrueAdvSize(a) ==
    EncodeServiceUUID(EncodeFlags, a.serviceUUIDs).n + TrueElemsSize(a.manufacturerData)
TrueScanRespSize(a) ==
    EncodeLocalName(a.localName).n + TrueElemsSize(a.serviceData)
All16Bit(sds) == \A i \in 1..Len(sds) : Is16Bit(sds[i].UUID)

\* C6: with the transport accepting every command, Start returns the
\* length-exceeded error exactly when the true sum of the structure sizes
\* of the packet exceeds 31, and otherwise pushes a packet whose length is
\* that sum (advertising data with manufacturer data, scan response with
\* 16-bit service data).
C6_FailsExactlyWhenTooLong ==
    (lastOp = "Start" /\ advRet # "hciErr") =>
      /\ (advRet = "ManufacturerData too long") <=> (TrueAdvSize(adv) > 31)
      /\ TrueAdvSize(adv) <= 31 =>
           /\ Len(advLog) >= 2
           /\ Len(advLog[2].data) = TrueAdvSize(adv)
      /\ (TrueAdvSize(adv) <= 31 /\ All16Bit(adv.serviceData)) =>
           /\ (advRet = "ServiceData too long") <=> (TrueScanRespSize(adv) > 31)
           /\ TrueScanRespSize(adv) <= 31 =>
                /\ Len(advLog) >= 3
                /\ Len(advLog[3].data) = TrueScanRespSize(adv)

\* C7: while a report is decoded, every buffer index read is below the
\* declared report length.
C7_ReadsBelowDeclaredLength ==
    \A k \in lastReads : k < lastEirLength

\* C8: the scan-response packet starts with the local name: a name longer
\* than 29 bytes as its first 29 bytes tagged Short Local Name (0x08) with
\* length byte 30, a name of 1..29 bytes in full tagged Complete Local Name
\* (0x09) with length byte 1 + len(name).
C8_LocalNameStructure ==
    (lastOp = "Start" /\ Len(advLog) >= 3 /\ Len(adv.localName) >= 1) =>
      LET p == advLog[3].data
          name == adv.localName
      IN  IF Len(name) > 29
          THEN /\ Len(p) >= 31
               /\ p[1] = 30 /\ p[2] = 8
               /\ SubSeq(p, 3, 31) = SubSeq(name, 1, 29)
          ELSE /\ Len(p) >= 2 + Len(name)
               /\ p[1] = 1 + Len(name) /\ p[2] = 9
               /\ SubSeq(p, 3, 2 + Len(name)) = name

\* C9: Start called before any Configure returns an error and has no side
\* effect: no HCI command is written and no task is spawned.
C9_StartBeforeConfigureRejected ==
    (lastOp = "Start" /\ configureCalls = 0) =>
      /\ advRet # "nil"
      /\ advLog = <<>>
      /\ spawned = 0

CapacityErrors ==
    {"ManufacturerData too long", "ServiceData too long",
     "32-bit ServiceData UUIDs not yet supported"}

\* C10: when Start fails with a capacity error it has written nothing to
\* the transport.
C10_CapacityErrorWritesNothing ==
    (lastOp = "Start" /\ advRet \in CapacityErrors) => advLog = <<>>


-----------------------------------------------------------------------------
(* Scan state errors, oversize reports *)

\* a step of the StopScan caller, of Scan caller t
StopScanStep == <<stopPc, stopRet, stopCmds>>' # <<stopPc, stopRet, stopCmds>>
ScanStep(t) == <<scanPc[t], scanRet[t], scanCmds[t]>>' # <<scanPc[t], scanRet[t], scanCmds[t]>>

\* C11: StopScan called while the adapter is not scanning returns
\* errNotScanning and a Scan called while the flag is set returns errScanning,
\* in both cases with no HCI command issued and the flag unchanged; StopScan
\* called while scanning issues the scan-disable command and clears the flag
\* only if the command succeeds.
C11_StopScanRejected ==
    (stopPc = "idle" /\ StopScanStep /\ ~scanning) =>
        /\ stopRet' = "errNotScanning" /\ stopPc' = "idle"
        /\ stopCmds' = <<>> /\ scanning' = scanning
C11_ScanRejected(t) ==
    (scanPc[t] = "idle" /\ ScanStep(t) /\ scanning) =>
        /\ scanRet'[t] = "errScanning" /\ scanPc'[t] = "idle"
        /\ scanCmds'[t] = <<>> /\ scanning' = scanning
C11_StopScanAccepted ==
    /\ (stopPc = "idle" /\ StopScanStep /\ scanning) =>
          stopPc' = "disable" /\ stopCmds' = <<>> /\ scanning' = scanning
    /\ (stopPc = "disable" /\ StopScanStep) =>
          /\ stopCmds' = <<"leSetScanEnable(false)">> /\ stopPc' = "idle"
          /\ stopRet' \in {"nil", "hciErr"}
          /\ (stopRet' = "nil") => ~scanning'
          /\ (stopRet' = "hciErr") => (scanning' = scanning)
C11_StateErrorsAndStop ==
    [][/\ C11_StopScanRejected
        /\ \A t \in Scanners : C11_ScanRejected(t)
        /\ C11_StopScanAccepted]_vars
\* StopScan has failed to disable scanning and the flag is still set, after
\* a Scan was turned away
C11_Witness ==
    /\ stopRet = "hciErr" /\ stopCmds = <<"leSetScanEnable(false)">> /\ scanning
    /\ \E t \in Scanners : scanRet[t] = "errScanning" /\ scanCmds[t] = <<>>

\* C12: a pending report whose declared length exceeds 31 is discarded (no
\* callback, the report cleared, the flag unchanged, the loop goes on), and
\* every pending report of declared length at most 31 causes exactly one
\* callback invocation, made before the report is cleared.
C12_HandledOnce(t) ==
    (scanPc[t] = "handle" /\ advData.reported /\ scanPc'[t] # "handle") =>
        /\ ~advData'.reported
        /\ scanPc'[t] = "poll"
        /\ scanning' = scanning
        /\ Len(delivered') = Len(delivered) + (IF advData.eirLength > 31 THEN 0 ELSE 1)
C12_OversizeDroppedOthersDelivered ==
    [][\A t \in Scanners : C12_HandledOnce(t)]_vars

-----------------------------------------------------------------------------
(* Packets on the air *)

\* a pushed packet as a scanning peer holds it: the pending report of
\* lines 64-75, declared length the packet's, the rest of the buffer zero
Scanned(p) == Decode(Report(Len(p), p).eirData, Len(p))

\* C13: for every configuration of 16-bit or 128-bit service UUIDs and a
\* local name whose encoded packets are each at most 31 bytes, decoding the
\* advertising-data and scan-response packets that Start pushes yields the
\* configured service UUIDs, in order, and the configured local name.
C13_RoundTrip ==
    (/\ lastOp = "Start" /\ advRet = "nil" /\ Len(advLog) >= 3
     /\ \A k \in 1..Len(adv.serviceUUIDs) :
            Is16Bit(adv.serviceUUIDs[k]) \/ ~Is32Bit(adv.serviceUUIDs[k])
     /\ adv.manufacturerData = <<>> /\ adv.serviceData = <<>>) =>
        LET a == Scanned(advLog[2].data)
            s == Scanned(advLog[3].data)
        IN  /\ ~a.panic /\ ~s.panic
            /\ a.adf.ServiceUUIDs = adv.serviceUUIDs
            /\ s.adf.LocalName = adv.localName

\* the walk of a packet by length + 1 from offset i (0-based) ends exactly
\* at the packet's end, each structure holding its tag byte at least
RECURSIVE WalkEndsAt(_, _)
WalkEndsAt(p, i) ==
    IF i = Len(p) THEN TRUE
    ELSE /\ p[i + 1] >= 1
         /\ i + 1 + p[i + 1] <= Len(p)
         /\ WalkEndsAt(p, i + 1 + p[i + 1])
WellFormed(p) == WalkEndsAt(p, 0)

\* C14: every advertising-data and scan-response packet pushed to the
\* transport is a well-formed sequence of AD structures: walking it by
\* length + 1 from offset 0 lands exactly on the packet's end and no
\* structure extends past the end, whatever the configuration, a single
\* 16-bit, 32-bit or 128-bit service UUID included.
C14_PushedPacketsWellFormed ==
    \A k \in 1..Len(advLog) :
        advLog[k].cmd \in {"leSetAdvertisingData", "leSetScanResponseData"} =>
            WellFormed(advLog[k].data)

-----------------------------------------------------------------------------
(* Scan lifecycle *)

\* C15: whenever no Scan call is executing the scanning flag is false, so
\* that after a Scan call has returned for any reason (nil, scan-enable
\* error, poll error) a later Scan is not rejected with errScanning.
C15_IdleMeansNotScanning ==
    (\A t \in Scanners : scanPc[t] = "idle") => ~scanning

\* Scan and StopScan callers with every poll succeeding; a Scan call that
\* is in its loop keeps taking iterations (the loop of lines 58-133 never
\* blocks)
NextScanFair ==
    \/ \E t \in Scanners : ScanCheck(t)
    \/ \E t \in Scanners, f \in BOOLEAN : ScanDisable(t, f)
    \/ \E t \in Scanners, f \in BOOLEAN : ScanParams(t, f)
    \/ \E t \in Scanners, f \in BOOLEAN : ScanEnable(t, f)
    \/ \E t \in Scanners : ScanPollNone(t)
    \/ \E t \in Scanners, r \in LifecycleReports : ScanPollReport(t, r)
    \/ \E t \in Scanners : ScanHandle(t)
    \/ StopScanCheck
    \/ \E f \in BOOLEAN : StopScanDisable(f)
SpecScanFair ==
    /\ Init /\ [][NextScanFair]_vars
    /\ \A t \in Scanners : WF_vars(ScanPollNone(t)) /\ WF_vars(ScanHandle(t))

\* C16: once StopScan has cleared the scanning flag, a Scan call that is in
\* its poll loop eventually returns nil, under fair scheduling of the loop
\* and with every poll succeeding.
C16_StoppedLoopReturnsNil ==
    \A t \in Scanners :
        (InLoop(t) /\ ~scanning) ~> (scanPc[t] = "idle" /\ scanRet[t] = "nil")

-----------------------------------------------------------------------------
(* Connections *)

\* C17: a Connect that observes connect-complete returns a Device holding
\* the handle and the peer address the controller reported, MTU 23 and no
\* notification registration; the Device is added to the registry exactly
\* once, and the pending connect-complete event is cleared by the time
\* Connect returns, so that a later Connect cannot reuse it.
C17_ConnectReturnsDevice ==
    /\ [][(connPc = "connected" /\ connPc' = "idle") =>
            /\ connRet'.err = "nil"
            /\ connRet'.dev.present
            /\ connRet'.dev.handle = connectData.handle
            /\ connRet'.dev.Address.MAC = connectData.peerBdaddr
            /\ connRet'.dev.mtu = defaultMTU
            /\ connRet'.dev.notificationRegistrations = <<>>
            /\ connections' = Append(connections, connRet'.dev)]_vars
    /\ [](connPc = "connected" => connectData.connected)
    /\ [](connPc \in {"idle", "poll"} => ~connectData.connected)
    /\ [](connRet.err = "nil" =>
            connRet.dev.present /\ connRet.dev = connections[Len(connections)])
\* a second Connect has returned a Device whose peer address is not the
\* address the call was given
C17_Witness ==
    /\ connPc = "idle" /\ connRet.err = "nil" /\ Len(connections) = 2
    /\ connRet.dev.Address.MAC # connAddr.MAC
    /\ connRet.dev.handle = 64

\* C18: findNotificationRegistration(handle), on any copy of the Device,
\* returns the first entry with that handle, and the entry returned is the
\* registry's own: what is assigned through the returned reference is what
\* later finds observe.
C18_FoundIsRegistryEntry ==
    found.present =>
        LET regs == notifRegs[found.dev]
            k == FirstMatch(regs, found.handle)
        IN  k > 0 /\ regs[k] = found.n

\* C19: once StopScan has returned nil, the Scan call it stopped never
\* invokes the scan callback again, even when the poll of its next
\* iteration surfaces a pending report.
C19_NoCallbackAfterStop == ~cbAfterStop

-----------------------------------------------------------------------------
(* Termination of Stop *)

\* the background tasks keep running (each loops without blocking, lines
\* 416-431) and a send on a.stop that a task is ready to receive completes
SpecAdvFair ==
    /\ Init /\ [][NextAdv]_vars
    /\ WF_vars(StopRendezvous) /\ WF_vars(TaskDefault) /\ WF_vars(TaskPoll)

\* C20: under fair scheduling, a Stop call whose disable-advertising command
\* succeeded eventually returns, in every call sequence: also when no
\* background task is running (before any Start, after a failed Start, as a
\* second Stop after one Start) it does not block forever on the send of
\* the stop signal.
C20_StopReturns == (advPc = "stopSend") ~> (advPc = "idle")
====
